---- MODULE Spec2Model ----
(***************************************************************************)
(* Distributed training / evaluation driver of train_imagenet.py.          *)
(*                                                                         *)
(* One process per rank runs main(): resume handling, then either one      *)
(* evaluation pass (validate) or the epoch loop train -> validate ->       *)
(* save_checkpoint.  Ranks meet only in the collectives of                 *)
(* torch.distributed: all_reduce on the world group, all_reduce on a       *)
(* remainder subgroup, and new_group.                                      *)
(*                                                                         *)
(* Numbers that the code holds as floats (loss sums, percentages, meter    *)
(* averages) are exact rationals <<numerator, denominator>> here.          *)
(***************************************************************************)
EXTENDS Integers, Sequences, FiniteSets, TLC

\* ------------------------------------------------------------------ bounds
MaxW == 3
MaxN == 7
MaxB == 3
MaxEpochs == 2
MaxTrainLen == 2
MaxExtra == 1
MaxVal == 2
MaxWeight == 2
MaxUpdates == 4
MaxClasses == 3
MaxAccBatch == 2

\* --------------------------------------------------------------- rationals
RECURSIVE GCD(_, _)
GCD(a, b) == IF b = 0 THEN a ELSE GCD(b, a % b)

\* the rational n/d in lowest terms (d > 0, n >= 0)
Rat(n, d) ==
    LET g == GCD(n, d) IN IF g = 0 THEN <<0, 1>> ELSE <<n \div g, d \div g>>

Zero == Rat(0, 1)

RatAdd(x, y) == Rat(x[1] * y[2] + y[1] * x[2], x[2] * y[2])

RatMulInt(x, k) == Rat(x[1] * k, x[2])

RatDivInt(x, k) == Rat(x[1], x[2] * k)

RatLt(x, y) == x[1] * y[2] < y[1] * x[2]

RatMax(x, y) == IF RatLt(x, y) THEN y ELSE x

Min(a, b) == IF a < b THEN a ELSE b

\* ----------------------------------------------------------- AverageMeter
\* AverageMeter.reset
MeterReset == [val |-> Zero, avg |-> Zero, sum |-> Zero, count |-> 0]

\* AverageMeter.__init__: self.reset()
MeterInit == MeterReset

\* an update that adds the value to the sum without its weight
MeterUpdateUnweighted(m, v, n) ==
    LET s == RatAdd(m.sum, v)
        c == m.count + n
    IN  [val |-> v, avg |-> IF c = 0 THEN m.avg ELSE RatDivInt(s, c), sum |-> s, count |-> c]

\* AverageMeter.update(val, n): val, sum and count are assigned, then avg is
\* self.sum / self.count; with count 0 the division raises and avg keeps its value
MeterUpdate(m, v, n) ==
    LET s == RatAdd(m.sum, RatMulInt(v, n))
        c == m.count + n
    IN  [val |-> v, avg |-> IF c = 0 THEN m.avg ELSE RatDivInt(s, c), sum |-> s, count |-> c]

\* "self.avg = self.sum / self.count" raises ZeroDivisionError
MeterRaises(m, n) == m.count + n = 0

FreshMeters == [losses |-> MeterReset, top1 |-> MeterReset, top5 |-> MeterReset]

\* the meter that the loop "for meter,val in (losses,loss),(top1,prec1),(top5,prec5)"
\* pairs with its k-th value
MeterName(k) == IF k = 1 THEN "losses" ELSE IF k = 2 THEN "top1" ELSE "top5"

\* ------------------------------------------------------------------- state
VARIABLES
    world_size,    \* WORLD_SIZE of the job (1: not distributed)
    val_len,       \* len(val_loader.dataset)
    batch_size,    \* conf["optimizer"]["batch_size"] // world_size
    epochs,        \* conf["optimizer"]["schedule"]["epochs"]
    train_len,     \* len(train_loader)
    evaluate,      \* args.evaluate
    resume,        \* args.resume is a non-empty path
    resume_file,   \* <<>>: no file at args.resume; <<c>>: the checkpoint stored there
    group_sync,    \* TRUE: dist.new_group is a rendezvous of the whole world
                   \* (the documented contract); FALSE: the backend forms groups lazily
    val_out,       \* per pass: the model's outcome on the validation set
    feed,          \* the training batches' local statistics
    pc,            \* per rank: the place in main / train / validate
    tb,            \* per rank: the module global tb
    weights,       \* per rank: where the model's weights come from
    start_epoch,   \* per rank: args.start_epoch, <<>> while the attribute is not set
    best_prec1,    \* per rank: the module global best_prec1
    epoch,         \* per rank: the loop variable of main
    it,            \* per rank: validate's parameter it, <<>> for None
    i,             \* per rank: the batch index of the running loop
    input_shape,   \* per rank: input.shape[0] in validate, 0 while input is unbound
    group,         \* per rank: the all_reduce handed to process
    count,         \* per rank: the tensor count
    vals,          \* per rank: the tensors <<loss, prec1, prec5>>
    fld,           \* per rank: 0 while count is being reduced, else the meter index
    meters,        \* per rank: losses, top1, top5
    prec1,         \* per rank: the value validate returned
    ar_world,      \* per rank: the values it has put into world all-reduces, in order
    ar_sub,        \* per rank: the values it has put into subgroup all-reduces
    ng_calls,      \* per rank: the number of dist.new_group calls it has issued
    steps,         \* per rank: one record per process() call of the running pass
    phases,        \* per rank: the phases of main it has gone through
    tb_log,        \* per rank: its writes to the metrics sink
    ckpt_log,      \* per rank: its save_checkpoint calls
    disk,          \* checkpoint.pth.tar and model_best.pth.tar
    warn_log,      \* per rank: the logger.warning calls
    raised,        \* per rank: the exception that ended it, "" for none
    mt,            \* an AverageMeter in use
    mf,            \* a meter constructed when mt was last reset, given the same updates
    hist,          \* the update(val, n) calls on mt since its last reset
    mraised,       \* the exception the last call on mt raised, "" for none
    acc_in,        \* accuracy_sum: per sample of the batch, the scores and the label
    acc_res        \* accuracy_sum: the list it returned, <<>> before the call

params == <<world_size, val_len, batch_size, epochs, train_len, evaluate, resume,
            resume_file, group_sync, val_out, feed>>

mainv == <<tb, weights, start_epoch, best_prec1, epoch, prec1, phases, ckpt_log, disk,
           warn_log>>

loopv == <<it, i, input_shape, group, count, vals, fld, meters, steps>>

distv == <<ar_world, ar_sub, ng_calls>>

unitv == <<mt, mf, hist, mraised, acc_in, acc_res>>

vars == <<params, mainv, loopv, distv, pc, tb_log, raised, unitv>>

Ranks == 0 .. (world_size - 1)

\* dist.is_initialized(): init_process_group runs iff world_size > 1
Distributed == world_size > 1

\* --------------------------------------------------------- data and shards
\* TestDistributedSampler: rank r holds floor(N/W) samples, one more iff r < N mod W
ShardSize(r) == (val_len \div world_size) + (IF r < val_len % world_size THEN 1 ELSE 0)

\* the dataset index of the k-th sample of rank r's shard
SampleIndex(r, k) == r + world_size * k

\* len(val_loader): the DataLoader cuts the shard into batches of batch_size, the
\* last one shorter
NumBatches(r) == (ShardSize(r) + batch_size - 1) \div batch_size

BatchLen(r, j) == Min(batch_size, ShardSize(r) - j * batch_size)

BatchSamples(r, j) ==
    {SampleIndex(r, k) : k \in (j * batch_size) .. (j * batch_size + BatchLen(r, j) - 1)}

\* the model's outcome on pass e: samples below k1 have the true label ranked first,
\* samples below k5 have it among the first five
Outcomes(n) == {o \in [k1 : 0 .. n, k5 : 0 .. n] : o.k1 <= o.k5}

Hit1(e, x) == x < val_out[e].k1

Hit5(e, x) == x < val_out[e].k5

\* criterion(output, target) * target.shape[0]: the batch's loss sum
SampleLoss(e, x) == IF Hit1(e, x) THEN 1 ELSE IF Hit5(e, x) THEN 2 ELSE 3

\* the sum of f over the set S
RECURSIVE SetSum(_, _)
SetSum(S, f) ==
    IF S = {} THEN 0
    ELSE LET x == CHOOSE y \in S : TRUE IN f[x] + SetSum(S \ {x}, f)

One1(e, x) == IF Hit1(e, x) THEN 1 ELSE 0

One5(e, x) == IF Hit5(e, x) THEN 1 ELSE 0

\* the local tensors <<loss, prec1, prec5>> of validate.process for batch j
ValLocal(r, j, e) ==
    LET S == BatchSamples(r, j)
    IN  <<SetSum(S, [x \in S |-> SampleLoss(e, x)]),
          100 * SetSum(S, [x \in S |-> One1(e, x)]),
          100 * SetSum(S, [x \in S |-> One5(e, x)])>>

\* the local statistics of one training batch
TrainStats(b) == {s \in [n : 1 .. b, hit1 : 0 .. b, hit5 : 0 .. b] :
                    s.hit1 <= s.hit5 /\ s.hit5 <= s.n}

\* the batch that rank r draws at step j of epoch e
TrainBatchOf(r, j, e) == feed[(r + j + e) % world_size]

\* the local tensors <<loss, prec1, prec5>> of train for a batch
TrainLocal(s) == <<s.hit1 + 2 * (s.hit5 - s.hit1) + 3 * (s.n - s.hit5),
                   100 * s.hit1, 100 * s.hit5>>

\* ------------------------------------------------------------ initial state
\* the state of every process when main() is entered
Workers ==
    /\ pc = [r \in Ranks |-> "main"]
    /\ tb = [r \in Ranks |-> "None"]
    /\ weights = [r \in Ranks |-> "default"]
    /\ start_epoch = [r \in Ranks |-> <<>>]
    /\ best_prec1 = [r \in Ranks |-> Zero]
    /\ epoch = [r \in Ranks |-> 0]
    /\ prec1 = [r \in Ranks |-> Zero]
    /\ it = [r \in Ranks |-> <<>>]
    /\ i = [r \in Ranks |-> 0]
    /\ input_shape = [r \in Ranks |-> 0]
    /\ group = [r \in Ranks |-> "None"]
    /\ count = [r \in Ranks |-> 0]
    /\ vals = [r \in Ranks |-> <<0, 0, 0>>]
    /\ fld = [r \in Ranks |-> 0]
    /\ meters = [r \in Ranks |-> FreshMeters]
    /\ ar_world = [r \in Ranks |-> <<>>]
    /\ ar_sub = [r \in Ranks |-> <<>>]
    /\ ng_calls = [r \in Ranks |-> 0]
    /\ steps = [r \in Ranks |-> <<>>]
    /\ phases = [r \in Ranks |-> <<"Init">>]
    /\ tb_log = [r \in Ranks |-> <<>>]
    /\ ckpt_log = [r \in Ranks |-> <<>>]
    /\ warn_log = [r \in Ranks |-> 0]
    /\ raised = [r \in Ranks |-> ""]
    /\ disk = [ckpt |-> <<>>, best |-> <<>>]

\* no meter and no batch under study
NoUnit ==
    /\ mt = MeterInit
    /\ mf = MeterInit
    /\ hist = <<>>
    /\ mraised = ""
    /\ acc_in = <<>>
    /\ acc_res = <<>>

\* the checkpoints a file at args.resume may hold
Checkpoints ==
    {[epoch |-> e, best_prec1 |-> Rat(50, 1)] : e \in 1 .. MaxEpochs}

\* the passes of a run: one per epoch, one in all for an evaluate-only run
Passes == 0 .. (IF epochs > 1 THEN epochs - 1 ELSE 0)

\* a full run of main(): training or evaluate-only, with or without --resume; the
\* validation set holds one sample per rank and up to MaxExtra more, every batch
\* is one sample, every epoch one training batch
Init ==
    /\ world_size \in 1 .. MaxW
    /\ val_len \in world_size .. (world_size + MaxExtra)
    /\ batch_size = 1
    /\ evaluate \in BOOLEAN
    /\ epochs \in IF evaluate THEN {0} ELSE 0 .. MaxEpochs
    /\ train_len = 1
    /\ resume \in BOOLEAN
    /\ resume_file \in IF resume THEN {<<>>} \cup {<<c>> : c \in Checkpoints} ELSE {<<>>}
    /\ group_sync \in BOOLEAN
    /\ val_out \in [Passes -> {o \in Outcomes(val_len) : o.k5 = val_len}]
    /\ feed = [r \in Ranks |->
                 [n |-> batch_size, hit1 |-> Min(r, batch_size), hit5 |-> batch_size]]
    /\ Workers
    /\ NoUnit

\* one evaluation pass: main() launched with --evaluate and no --resume
InitVal ==
    /\ world_size \in 1 .. MaxW
    /\ val_len \in 1 .. MaxN
    /\ batch_size \in 1 .. MaxB
    /\ epochs = 0
    /\ train_len = 1
    /\ evaluate = TRUE
    /\ resume = FALSE
    /\ resume_file = <<>>
    /\ group_sync \in BOOLEAN
    /\ val_out \in [Passes -> Outcomes(val_len)]
    /\ feed = [r \in Ranks |-> [n |-> batch_size, hit1 |-> 0, hit5 |-> 0]]
    /\ Workers
    /\ NoUnit

\* the evaluation pass of three workers over ten samples
InitE2E ==
    /\ world_size = 3
    /\ val_len = 10
    /\ batch_size \in 1 .. (MaxB + 1)
    /\ epochs = 0
    /\ train_len = 1
    /\ evaluate = TRUE
    /\ resume = FALSE
    /\ resume_file = <<>>
    /\ group_sync \in BOOLEAN
    /\ val_out \in [Passes -> Outcomes(val_len)]
    /\ feed = [r \in Ranks |-> [n |-> batch_size, hit1 |-> 0, hit5 |-> 0]]
    /\ Workers
    /\ NoUnit

\* the first training epoch of a fresh run
InitTrain ==
    /\ world_size \in 1 .. MaxW
    /\ val_len = 1
    /\ batch_size \in 1 .. MaxB
    /\ epochs = 1
    /\ train_len \in 1 .. MaxTrainLen
    /\ evaluate = FALSE
    /\ resume = FALSE
    /\ resume_file = <<>>
    /\ group_sync = TRUE
    /\ val_out = [e \in Passes |-> [k1 |-> 0, k5 |-> 0]]
    /\ \E s \in TrainStats(batch_size), t \in TrainStats(batch_size) :
          feed = [r \in Ranks |-> IF r % 2 = 0 THEN s ELSE t]
    /\ Workers
    /\ NoUnit

\* one epoch of a fresh training run: a training step with unequal local batches,
\* then the evaluation pass, then the checkpoint
InitStep ==
    /\ world_size \in 1 .. MaxW
    /\ batch_size \in 1 .. (MaxB - 1)
    /\ val_len \in (world_size .. (world_size + MaxExtra)) \cup {world_size * batch_size}
    /\ epochs = 1
    /\ train_len = 1
    /\ evaluate = FALSE
    /\ resume = FALSE
    /\ resume_file = <<>>
    /\ group_sync \in BOOLEAN
    /\ val_out \in [Passes -> {o \in Outcomes(val_len) : o.k5 = val_len}]
    /\ feed = [r \in Ranks |->
                 IF r % 2 = 0
                 THEN [n |-> batch_size, hit1 |-> 1, hit5 |-> batch_size]
                 ELSE [n |-> 1, hit1 |-> 0, hit5 |-> 1]]
    /\ Workers
    /\ NoUnit

\* a single process with nothing to run: the setting of the studies of AverageMeter
\* and accuracy_sum on their own
Idle ==
    /\ world_size = 1
    /\ val_len = 1
    /\ batch_size = 1
    /\ epochs = 0
    /\ train_len = 1
    /\ evaluate = TRUE
    /\ resume = FALSE
    /\ resume_file = <<>>
    /\ group_sync = FALSE
    /\ val_out = [e \in Passes |-> [k1 |-> 0, k5 |-> 0]]
    /\ feed = [r \in Ranks |-> [n |-> batch_size, hit1 |-> 0, hit5 |-> 0]]
    /\ Workers

\* a freshly constructed AverageMeter
InitMeter ==
    /\ Idle
    /\ NoUnit

\* -------------------------------------------------------------------- main
Push(f, r, x) == [f EXCEPT ![r] = Append(@, x)]

\* an uncaught exception ends the process
Raise(r, what) ==
    /\ pc' = [pc EXCEPT ![r] = "error"]
    /\ raised' = [raised EXCEPT ![r] = what]

\* a resume that starts over at epoch 0
ResumeEpochZero(c) == 0

\* args.start_epoch = checkpoint['epoch']
ResumeEpoch(c) == c.epoch

\* main, up to the resume block: rank, tb, then "optionally resume from a checkpoint"
Main(r) ==
    /\ pc[r] = "main"
    /\ pc' = [pc EXCEPT ![r] = "setup"]
    /\ tb' = [tb EXCEPT ![r] = IF r = 0 THEN "SummaryWriter" ELSE "None"]
    /\ IF resume
       THEN IF resume_file # <<>>
            THEN /\ start_epoch' = [start_epoch EXCEPT ![r] = <<ResumeEpoch(resume_file[1])>>]
                 /\ best_prec1' = [best_prec1 EXCEPT ![r] = resume_file[1].best_prec1]
                 /\ weights' = [weights EXCEPT ![r] = "checkpoint"]
                 /\ phases' = Push(phases, r, "Resume")
                 /\ UNCHANGED warn_log
            ELSE /\ warn_log' = [warn_log EXCEPT ![r] = @ + 1]
                 /\ phases' = Push(phases, r, "Resume")
                 /\ UNCHANGED <<start_epoch, best_prec1, weights>>
       ELSE /\ weights' = [weights EXCEPT ![r] = "init_weights"]
            /\ start_epoch' = [start_epoch EXCEPT ![r] = <<0>>]
            /\ phases' = Push(phases, r, "FreshInit")
            /\ UNCHANGED <<best_prec1, warn_log>>
    /\ UNCHANGED <<unitv, params, epoch, prec1, ckpt_log, disk, loopv, distv, tb_log, raised>>

\* main: "if args.evaluate: validate(...); return", else the head of the epoch loop,
\* which reads args.start_epoch
Dispatch(r) ==
    /\ pc[r] = "setup"
    /\ IF evaluate
       THEN /\ pc' = [pc EXCEPT ![r] = "val_enter"]
            /\ it' = [it EXCEPT ![r] = <<>>]
            /\ UNCHANGED <<epoch, raised>>
       ELSE IF start_epoch[r] = <<>>
            THEN /\ Raise(r, "AttributeError: start_epoch")
                 /\ UNCHANGED <<epoch, it>>
            ELSE /\ pc' = [pc EXCEPT ![r] = "epoch_head"]
                 /\ epoch' = [epoch EXCEPT ![r] = start_epoch[r][1]]
                 /\ UNCHANGED <<it, raised>>
    /\ UNCHANGED <<unitv, params, tb, weights, start_epoch, best_prec1, prec1, phases, ckpt_log,
                   disk, warn_log, i, input_shape, group, count, vals, fld, meters, steps,
                   distv, tb_log>>

\* for epoch in range(args.start_epoch, epochs)
EpochHead(r) ==
    /\ pc[r] = "epoch_head"
    /\ IF epoch[r] < epochs
       THEN /\ pc' = [pc EXCEPT ![r] = "train_enter"]
            /\ UNCHANGED phases
       ELSE /\ pc' = [pc EXCEPT ![r] = "done"]
            /\ phases' = Push(phases, r, "Done")
    /\ UNCHANGED <<unitv, params, tb, weights, start_epoch, best_prec1, epoch, prec1, ckpt_log,
                   disk, warn_log, loopv, distv, tb_log, raised>>

\* a comparison that also accepts an equal score
IsBestGe(p, b) == ~RatLt(p, b)

\* is_best = prec1 > best_prec1
IsBest(p, b) == RatLt(b, p)

\* main: "remember best prec@1 and save checkpoint", with save_checkpoint
Checkpoint(r) ==
    /\ pc[r] = "ckpt"
    /\ LET is_best == IsBest(prec1[r], best_prec1[r])
           best == RatMax(prec1[r], best_prec1[r])
           state == [epoch |-> epoch[r] + 1, best_prec1 |-> best]
       IN  /\ best_prec1' = [best_prec1 EXCEPT ![r] = best]
           /\ disk' = [ckpt |-> <<state>>,
                       best |-> IF is_best THEN <<state>> ELSE disk.best]
           /\ ckpt_log' = Push(ckpt_log, r, [state |-> state, best_copy |-> is_best,
                                             score |-> prec1[r],
                                             before |-> best_prec1[r],
                                             trained |-> epoch[r]])
    /\ phases' = Push(phases, r, "Checkpoint")
    /\ epoch' = [epoch EXCEPT ![r] = @ + 1]
    /\ pc' = [pc EXCEPT ![r] = "epoch_head"]
    /\ UNCHANGED <<unitv, params, tb, weights, start_epoch, prec1, warn_log, loopv, distv,
                   tb_log, raised>>

\* ------------------------------------------------------------- collectives
\* the k-th all-reduce on the world group completes for a rank once every rank has
\* issued its k-th
WorldReady(r) == \A s \in Ranks : Len(ar_world[s]) >= Len(ar_world[r])

RECURSIVE SumUpTo(_, _, _)
SumUpTo(log, k, n) == IF n < 0 THEN 0 ELSE log[n][k] + SumUpTo(log, k, n - 1)

WorldSum(k) == SumUpTo(ar_world, k, world_size - 1)

\* last_group_size = len(val_loader.dataset) % world_size
last_group_size == val_len % world_size

\* the all-reduces on the groups new_group(range(last_group_size)) involve the ranks
\* below last_group_size
SubReady(r) == \A s \in 0 .. (last_group_size - 1) : Len(ar_sub[s]) >= Len(ar_sub[r])

SubSum(k) == SumUpTo(ar_sub, k, last_group_size - 1)

Ready(r) == IF group[r] = "world" THEN WorldReady(r) ELSE SubReady(r)

Pending(r) ==
    IF group[r] = "world" THEN WorldSum(Len(ar_world[r])) ELSE SubSum(Len(ar_sub[r]))

\* dist.all_reduce(x, SUM) on the rank's group: the rank puts x in
Issue(r, x) ==
    IF group[r] = "world"
    THEN ar_world' = Push(ar_world, r, x) /\ UNCHANGED ar_sub
    ELSE ar_sub' = Push(ar_sub, r, x) /\ UNCHANGED ar_world

\* dist.new_group returns: at once, or once every rank of the world has entered it
GroupFormed(r) == ~group_sync \/ \A s \in Ranks : ng_calls[s] >= ng_calls[r]

\* a division by the number of processes instead of the reduced count
FoldWorld(m, k, total, c) ==
    [m EXCEPT ![MeterName(k)] = MeterUpdate(@, Rat(total, world_size), world_size)]

\* "val /= count.item(); meter.update(val.item(), count.item())" for the k-th meter
Fold(m, k, total, c) == [m EXCEPT ![MeterName(k)] = MeterUpdate(@, Rat(total, c), c)]

\* the three meters updated from local values, no collective involved
FoldLocal(m, v, c) == Fold(Fold(Fold(m, 1, v[1], c), 2, v[2], c), 3, v[3], c)

\* ------------------------------------------------------------------- train
\* train: the meters are created, the loop starts
TrainEnter(r) ==
    /\ pc[r] = "train_enter"
    /\ pc' = [pc EXCEPT ![r] = "train"]
    /\ meters' = [meters EXCEPT ![r] = FreshMeters]
    /\ i' = [i EXCEPT ![r] = 0]
    /\ phases' = Push(phases, r, "TrainEpoch")
    /\ UNCHANGED <<unitv, params, tb, weights, start_epoch, best_prec1, epoch, prec1, ckpt_log,
                   disk, warn_log, it, input_shape, group, count, vals, fld, steps, distv,
                   tb_log, raised>>

\* train: one batch up to the first all_reduce (of count); with one process the
\* three meters are updated at once. After the last batch train returns and main
\* calls validate(it = epoch * len(train_loader)).
TrainBatch(r) ==
    /\ pc[r] = "train"
    /\ IF i[r] < train_len
       THEN LET s == TrainBatchOf(r, i[r], epoch[r]) IN
            /\ count' = [count EXCEPT ![r] = s.n]
            /\ vals' = [vals EXCEPT ![r] = TrainLocal(s)]
            /\ fld' = [fld EXCEPT ![r] = 0]
            /\ IF Distributed
               THEN /\ group' = [group EXCEPT ![r] = "world"]
                    /\ ar_world' = Push(ar_world, r, s.n)
                    /\ pc' = [pc EXCEPT ![r] = "train_ar"]
                    /\ UNCHANGED meters
               ELSE /\ group' = [group EXCEPT ![r] = "None"]
                    /\ meters' = [meters EXCEPT ![r] = FoldLocal(@, TrainLocal(s), s.n)]
                    /\ pc' = [pc EXCEPT ![r] = "train_tb"]
                    /\ UNCHANGED ar_world
            /\ UNCHANGED it
       ELSE /\ pc' = [pc EXCEPT ![r] = "val_enter"]
            /\ it' = [it EXCEPT ![r] = <<epoch[r] * train_len>>]
            /\ UNCHANGED <<count, vals, fld, group, meters, ar_world>>
    /\ UNCHANGED <<unitv, params, mainv, i, input_shape, steps, ar_sub, ng_calls, tb_log, raised>>

\* a divisor that counts workers instead of samples
TrainCountWorld(total) == world_size

\* the value count holds after "dist.all_reduce(count, dist.ReduceOp.SUM)"
TrainCount(total) == total

\* train: a pending all_reduce returns; count takes the sum, or the value is divided
\* by count and its meter updated; the next all_reduce of the step is issued
TrainReduce(r) ==
    /\ pc[r] = "train_ar"
    /\ WorldReady(r)
    /\ LET total == WorldSum(Len(ar_world[r])) IN
       IF fld[r] = 0
       THEN /\ count' = [count EXCEPT ![r] = TrainCount(total)]
            /\ fld' = [fld EXCEPT ![r] = 1]
            /\ ar_world' = Push(ar_world, r, vals[r][1])
            /\ UNCHANGED <<meters, pc>>
       ELSE /\ meters' = [meters EXCEPT ![r] = Fold(@, fld[r], total, count[r])]
            /\ IF fld[r] < 3
               THEN /\ fld' = [fld EXCEPT ![r] = @ + 1]
                    /\ ar_world' = Push(ar_world, r, vals[r][fld[r] + 1])
                    /\ UNCHANGED pc
               ELSE /\ pc' = [pc EXCEPT ![r] = "train_tb"]
                    /\ UNCHANGED <<fld, ar_world>>
            /\ UNCHANGED count
    /\ UNCHANGED <<unitv, params, mainv, it, i, input_shape, group, vals, steps, ar_sub, ng_calls,
                   tb_log, raised>>

\* no guard at all: every rank writes
TbGuardNone(r) == TRUE

\* "if not dist.is_initialized() or dist.get_rank() == 0", in train and in validate
TbGuard(r) == ~Distributed \/ r = 0

\* train: the end of a step, with the tb.add_scalar calls
TrainTb(r) ==
    /\ pc[r] = "train_tb"
    /\ IF TbGuard(r)
       THEN IF tb[r] = "None"
            THEN Raise(r, "AttributeError: tb") /\ UNCHANGED <<tb_log, i>>
            ELSE /\ tb_log' = Push(tb_log, r, "train")
                 /\ pc' = [pc EXCEPT ![r] = "train"]
                 /\ i' = [i EXCEPT ![r] = @ + 1]
                 /\ UNCHANGED raised
       ELSE /\ pc' = [pc EXCEPT ![r] = "train"]
            /\ i' = [i EXCEPT ![r] = @ + 1]
            /\ UNCHANGED <<tb_log, raised>>
    /\ UNCHANGED <<unitv, params, mainv, it, input_shape, group, count, vals, fld, meters, steps,
                   distv>>

\* ---------------------------------------------------------------- validate
\* validate: the meters are created, rank and world_size read, the loop starts
ValEnter(r) ==
    /\ pc[r] = "val_enter"
    /\ pc' = [pc EXCEPT ![r] = "val"]
    /\ meters' = [meters EXCEPT ![r] = FreshMeters]
    /\ i' = [i EXCEPT ![r] = 0]
    /\ input_shape' = [input_shape EXCEPT ![r] = 0]
    /\ steps' = [steps EXCEPT ![r] = <<>>]
    /\ phases' = Push(phases, r, "Evaluate")
    /\ UNCHANGED <<unitv, params, tb, weights, start_epoch, best_prec1, epoch, prec1, ckpt_log,
                   disk, warn_log, it, group, count, vals, fld, distv, tb_log, raised>>

\* process(input, target, all_reduce) up to its first all_reduce, for the batch
\* i[r] and the group g; with no group to talk to, the whole of process and the
\* end of the loop body
Process(r, g) ==
    LET n == BatchLen(r, i[r])
        v == ValLocal(r, i[r], epoch[r])
        talks == g \in {"world", "sub"}
    IN  /\ group' = [group EXCEPT ![r] = g]
        /\ count' = [count EXCEPT ![r] = n]
        /\ vals' = [vals EXCEPT ![r] = v]
        /\ fld' = [fld EXCEPT ![r] = 0]
        /\ steps' = Push(steps, r, [group |-> g, n |-> n,
                                    count |-> IF talks THEN 0 ELSE n])
        /\ IF talks
           THEN /\ IF g = "world"
                   THEN ar_world' = Push(ar_world, r, n) /\ UNCHANGED ar_sub
                   ELSE ar_sub' = Push(ar_sub, r, n) /\ UNCHANGED ar_world
                /\ pc' = [pc EXCEPT ![r] = "val_ar"]
                /\ UNCHANGED <<meters, i>>
           ELSE /\ meters' = [meters EXCEPT ![r] = FoldLocal(@, v, n)]
                /\ i' = [i EXCEPT ![r] = @ + 1]
                /\ pc' = [pc EXCEPT ![r] = "val"]
                /\ UNCHANGED <<ar_world, ar_sub>>

\* a loop that never forms a subgroup
UseDefaultAlways(n) == TRUE

\* "if input.shape[0] > 1 or last_group_size == 0": the batch goes to the default
\* all_reduce
UseDefault(n) == n > 1 \/ last_group_size = 0

\* validate: the head of the loop and the choice of the group; the else branch
\* enters dist.new_group(range(last_group_size))
ValBatch(r) ==
    /\ pc[r] = "val"
    /\ IF i[r] < NumBatches(r)
       THEN /\ input_shape' = [input_shape EXCEPT ![r] = BatchLen(r, i[r])]
            /\ IF UseDefault(BatchLen(r, i[r]))
               THEN /\ Process(r, IF Distributed THEN "world" ELSE "None")
                    /\ UNCHANGED ng_calls
               ELSE /\ ng_calls' = [ng_calls EXCEPT ![r] = @ + 1]
                    /\ pc' = [pc EXCEPT ![r] = "val_ng"]
                    /\ UNCHANGED <<group, count, vals, fld, steps, ar_world, ar_sub,
                                   meters, i>>
       ELSE /\ pc' = [pc EXCEPT ![r] = "val_post"]
            /\ UNCHANGED <<input_shape, group, count, vals, fld, steps, meters, i, distv>>
    /\ UNCHANGED <<unitv, params, mainv, it, tb_log, raised>>

\* validate: dist.new_group returns; a rank outside range(last_group_size) holds a
\* handle on which all_reduce does nothing
ValNewGroup(r) ==
    /\ pc[r] = "val_ng"
    /\ GroupFormed(r)
    /\ Process(r, IF r < last_group_size THEN "sub" ELSE "nonmember")
    /\ UNCHANGED <<unitv, params, mainv, it, input_shape, ng_calls, tb_log, raised>>

\* process: a pending all_reduce returns; count takes the sum, or the value is
\* divided by count and its meter updated; then the next all_reduce, or the end of
\* the loop body
ValReduce(r) ==
    /\ pc[r] = "val_ar"
    /\ Ready(r)
    /\ LET total == Pending(r) IN
       IF fld[r] = 0
       THEN /\ count' = [count EXCEPT ![r] = total]
            /\ steps' = [steps EXCEPT ![r][Len(steps[r])].count = total]
            /\ fld' = [fld EXCEPT ![r] = 1]
            /\ Issue(r, vals[r][1])
            /\ UNCHANGED <<meters, pc, i>>
       ELSE /\ meters' = [meters EXCEPT ![r] = Fold(@, fld[r], total, count[r])]
            /\ IF fld[r] < 3
               THEN /\ fld' = [fld EXCEPT ![r] = @ + 1]
                    /\ Issue(r, vals[r][fld[r] + 1])
                    /\ UNCHANGED <<pc, i>>
               ELSE /\ pc' = [pc EXCEPT ![r] = "val"]
                    /\ i' = [i EXCEPT ![r] = @ + 1]
                    /\ UNCHANGED <<fld, ar_world, ar_sub>>
            /\ UNCHANGED <<count, steps>>
    /\ UNCHANGED <<unitv, params, mainv, it, input_shape, group, vals, ng_calls, tb_log, raised>>

\* the same test with rank >= last_group_size
PostGroupGe(r) == input_shape[r] = 1 /\ r >= last_group_size /\ last_group_size > 0

\* "if input.shape[0]==1 and rank > last_group_size > 0"
PostGroup(r) == input_shape[r] = 1 /\ r > last_group_size /\ last_group_size > 0

\* validate: after the loop; input is unbound when the loader gave no batch
ValPost(r) ==
    /\ pc[r] = "val_post"
    /\ IF input_shape[r] = 0
       THEN Raise(r, "UnboundLocalError: input") /\ UNCHANGED ng_calls
       ELSE IF PostGroup(r)
            THEN /\ ng_calls' = [ng_calls EXCEPT ![r] = @ + 1]
                 /\ pc' = [pc EXCEPT ![r] = "val_ng_post"]
                 /\ UNCHANGED raised
            ELSE /\ pc' = [pc EXCEPT ![r] = "val_end"]
                 /\ UNCHANGED <<ng_calls, raised>>
    /\ UNCHANGED <<unitv, params, mainv, loopv, ar_world, ar_sub, tb_log>>

\* validate: the dist.new_group after the loop returns
ValPostGroup(r) ==
    /\ pc[r] = "val_ng_post"
    /\ GroupFormed(r)
    /\ pc' = [pc EXCEPT ![r] = "val_end"]
    /\ UNCHANGED <<unitv, params, mainv, loopv, distv, tb_log, raised>>

\* validate: the tb.add_scalar calls and "return top1.avg"; an evaluate-only main
\* returns, the epoch loop goes on to the checkpoint
ValEnd(r) ==
    /\ pc[r] = "val_end"
    /\ IF it[r] # <<>> /\ TbGuard(r) /\ tb[r] = "None"
       THEN /\ Raise(r, "AttributeError: tb")
            /\ UNCHANGED <<tb_log, prec1, phases>>
       ELSE /\ tb_log' = IF it[r] # <<>> /\ TbGuard(r)
                         THEN Push(tb_log, r, "val") ELSE tb_log
            /\ prec1' = [prec1 EXCEPT ![r] = meters[r].top1.avg]
            /\ pc' = [pc EXCEPT ![r] = IF evaluate THEN "done" ELSE "ckpt"]
            /\ phases' = IF evaluate THEN Push(phases, r, "Done") ELSE phases
            /\ UNCHANGED raised
    /\ UNCHANGED <<unitv, params, tb, weights, start_epoch, best_prec1, epoch, ckpt_log, disk,
                   warn_log, loopv, distv>>

\* ---------------------------------------------------------- specifications
Next ==
    \/ \E r \in Ranks : Main(r)
    \/ \E r \in Ranks : Dispatch(r)
    \/ \E r \in Ranks : EpochHead(r)
    \/ \E r \in Ranks : TrainEnter(r)
    \/ \E r \in Ranks : TrainBatch(r)
    \/ \E r \in Ranks : TrainReduce(r)
    \/ \E r \in Ranks : TrainTb(r)
    \/ \E r \in Ranks : ValEnter(r)
    \/ \E r \in Ranks : ValBatch(r)
    \/ \E r \in Ranks : ValNewGroup(r)
    \/ \E r \in Ranks : ValReduce(r)
    \/ \E r \in Ranks : ValPost(r)
    \/ \E r \in Ranks : ValPostGroup(r)
    \/ \E r \in Ranks : ValEnd(r)
    \/ \E r \in Ranks : Checkpoint(r)

NextVal ==
    \/ \E r \in Ranks : Main(r)
    \/ \E r \in Ranks : Dispatch(r)
    \/ \E r \in Ranks : ValEnter(r)
    \/ \E r \in Ranks : ValBatch(r)
    \/ \E r \in Ranks : ValNewGroup(r)
    \/ \E r \in Ranks : ValReduce(r)
    \/ \E r \in Ranks : ValPost(r)
    \/ \E r \in Ranks : ValPostGroup(r)
    \/ \E r \in Ranks : ValEnd(r)

NextTrain ==
    \/ \E r \in Ranks : Main(r)
    \/ \E r \in Ranks : Dispatch(r)
    \/ \E r \in Ranks : EpochHead(r)
    \/ \E r \in Ranks : TrainEnter(r)
    \/ \E r \in Ranks : TrainBatch(r)
    \/ \E r \in Ranks : TrainReduce(r)
    \/ \E r \in Ranks : TrainTb(r)

Spec == Init /\ [][Next]_vars

SpecVal == InitVal /\ [][NextVal]_vars

SpecE2E == InitE2E /\ [][NextVal]_vars

SpecTrain == InitTrain /\ [][NextTrain]_vars

SpecStep == InitStep /\ [][Next]_vars

\* ------------------------------------------------------ accuracy_sum alone
\* the score vectors over c classes; the scores of a sample are pairwise distinct,
\* so that the order topk returns is determined
ScoreVectors(c) ==
    {f \in [1 .. c -> 1 .. c] : \A a, b \in 1 .. c : f[a] = f[b] => a = b}

\* the indices of the maxk smallest scores, smallest first
TopKSmallest(sc, maxk) ==
    [j \in 1 .. maxk |->
        CHOOSE c \in DOMAIN sc : Cardinality({d \in DOMAIN sc : sc[d] < sc[c]}) = j - 1]

\* "_, pred = output.topk(maxk, 1, True, True)" for one row: the indices of the maxk
\* largest scores, largest first
TopK(sc, maxk) ==
    [j \in 1 .. maxk |->
        CHOOSE c \in DOMAIN sc : Cardinality({d \in DOMAIN sc : sc[d] > sc[c]}) = j - 1]

RECURSIVE SeqMax(_)
SeqMax(q) ==
    IF Len(q) = 1 THEN q[1]
    ELSE (IF q[1] > SeqMax(Tail(q)) THEN q[1] ELSE SeqMax(Tail(q)))

\* accuracy_sum(output, target, topk): pred holds the top maxk indices of every
\* sample, correct compares them with the label, and for each k the first k rows
\* of correct are summed and multiplied by 100
AccuracySum(batch, topk) ==
    LET maxk == SeqMax(topk)
        pred == [x \in 1 .. Len(batch) |-> TopK(batch[x].scores, maxk)]
        correct == [j \in 1 .. maxk |->
                       [x \in 1 .. Len(batch) |-> pred[x][j] = batch[x].target]]
        correct_k(k) ==
            Cardinality({jx \in (1 .. k) \X (1 .. Len(batch)) : correct[jx[1]][jx[2]]})
    IN  [a \in 1 .. Len(topk) |-> 100 * correct_k(topk[a])]

\* the k requested: every k up to the number of classes
TopKAll(c) == [k \in 1 .. c |-> k]

\* a batch of 1 .. MaxAccBatch samples over 2 .. MaxClasses classes, not yet scored
InitAcc ==
    /\ Idle
    /\ mt = MeterInit
    /\ mf = MeterInit
    /\ hist = <<>>
    /\ mraised = ""
    /\ \E c \in 2 .. MaxClasses, b \in 1 .. MaxAccBatch :
          acc_in \in [1 .. b -> [scores : ScoreVectors(c), target : 1 .. c]]
    /\ acc_res = <<>>

\* the call accuracy_sum(output, target, topk=(1, ..., classes))
AccuracySumCall ==
    /\ acc_res = <<>>
    /\ acc_res' = AccuracySum(acc_in, TopKAll(Len(acc_in[1].scores)))
    /\ UNCHANGED <<params, mainv, loopv, distv, pc, tb_log, raised, mt, mf, hist, mraised,
                   acc_in>>

NextAcc == AccuracySumCall

SpecAcc == InitAcc /\ [][NextAcc]_vars

\* ------------------------------------------------------ AverageMeter alone
\* a call meter.update(val, n) with val in 0 .. MaxVal and n in 0 .. MaxWeight
MeterUpdateCall ==
    /\ mraised = ""
    /\ Len(hist) < MaxUpdates
    /\ \E x \in 0 .. MaxVal, n \in 0 .. MaxWeight :
          /\ mt' = MeterUpdate(mt, Rat(x, 1), n)
          /\ mf' = MeterUpdate(mf, Rat(x, 1), n)
          /\ mraised' = IF MeterRaises(mt, n) THEN "ZeroDivisionError" ELSE ""
          /\ hist' = Append(hist, [op |-> "update", val |-> x, n |-> n])
    /\ UNCHANGED <<params, mainv, loopv, distv, pc, tb_log, raised, acc_in, acc_res>>

\* a call meter.reset(); mf is constructed anew
MeterResetCall ==
    /\ mraised = ""
    /\ Len(hist) < MaxUpdates
    /\ mt' = MeterReset
    /\ mf' = MeterInit
    /\ hist' = Append(hist, [op |-> "reset", val |-> 0, n |-> 0])
    /\ UNCHANGED <<params, mainv, loopv, distv, pc, tb_log, raised, mraised, acc_in,
                   acc_res>>

NextMeter ==
    \/ MeterUpdateCall
    \/ MeterResetCall

SpecMeter == InitMeter /\ [][NextMeter]_vars

\* ------------------------------------------------------------------ claims
\* a rank waits in a collective that cannot return yet
Blocked(r) ==
    \/ pc[r] \in {"train_ar", "val_ar"} /\ ~Ready(r)
    \/ pc[r] \in {"val_ng", "val_ng_post"} /\ ~GroupFormed(r)

\* no rank can take a step any more
Quiescent == \A r \in Ranks : pc[r] \in {"done", "error"} \/ Blocked(r)

\* C1: No deadlock in evaluation: no evaluation pass ends with a worker waiting
\* in an all-reduce that the other members of its group never issue (here: no
\* process has raised, nobody can move, and a worker is still inside all_reduce).
C1_NoDeadlock ==
    \A r \in Ranks :
        ~(pc[r] = "val_ar" /\ Quiescent /\ \A s \in Ranks : raised[s] = "")

\* the index of the last step of the pass: rank 0 holds a largest shard
LastStep == NumBatches(0) - 1

\* C2: Remainder-group correctness: when R = N mod W # 0, whoever processes the
\* last step of the pass is a rank below R, does so on the remainder subgroup, and
\* obtains as sample count the sum of the local counts of the R ranks below R;
\* the ranks >= R process nothing in that step.
C2_RemainderGroup ==
    last_group_size # 0 =>
        \A r \in Ranks :
            Len(steps[r]) > LastStep =>
                LET st == steps[r][LastStep + 1]
                    members == 0 .. (last_group_size - 1)
                IN  /\ r < last_group_size
                    /\ st.group = "sub"
                    /\ st.count # 0 =>
                         st.count = SetSum(members, [s \in members |-> BatchLen(s, LastStep)])

\* C3: validate returns the global top-1 average on every worker: a worker that
\* has returned holds 100 * (top-1-correct samples of the whole set) / N, with a
\* cumulative meter weight of N.
C3_GlobalTop1 ==
    \A r \in Ranks :
        pc[r] = "done" =>
            /\ prec1[r] = Rat(100 * val_out[epoch[r]].k1, val_len)
            /\ meters[r].top1.count = val_len

\* the centrally computed sums of training step j of epoch e
CentralCount(j, e) == SetSum(Ranks, [s \in Ranks |-> TrainBatchOf(s, j, e).n])

CentralValue(k, j, e) ==
    SetSum(Ranks, [s \in Ranks |-> TrainLocal(TrainBatchOf(s, j, e))[k]])

\* C4: Aggregation exactness in a training step: after the all-reduces of step j
\* every worker holds, for loss, top-1 and top-5, the central sum of the local sums
\* divided by the central sum of the local counts, and each meter has been updated
\* with that summed count as weight (so its weight and weighted sum are the
\* central totals of the steps so far).
C4_TrainAggregation ==
    \A r \in Ranks :
        pc[r] = "train_tb" =>
            LET j == i[r]
                e == epoch[r]
                done == 0 .. j
            IN  /\ count[r] = CentralCount(j, e)
                /\ \A k \in 1 .. 3 :
                     LET m == meters[r][MeterName(k)] IN
                     /\ m.val = Rat(CentralValue(k, j, e), CentralCount(j, e))
                     /\ m.count = SetSum(done, [x \in done |-> CentralCount(x, e)])
                     /\ m.sum = Rat(SetSum(done, [x \in done |-> CentralValue(k, x, e)]), 1)

\* C4: reached: three workers with unequal local counts after their second step
C4_Witness ==
    /\ world_size = 3
    /\ feed[0].n # feed[1].n
    /\ feed[0].hit1 # feed[1].hit1
    /\ \A r \in Ranks : pc[r] = "train_tb" /\ i[r] = 1

\* C5: End-to-end scenario W = 3, N = 10: the pass ends with every worker returned;
\* rank 0 has processed its steps before the last over the world group with
\* batches of at least 2 and its last step alone, 1 sample on a subgroup, with a
\* global count of 1; its global counts add up to 10; ranks 1 and 2 have
\* processed exactly the steps before the last, over the world group.
C5_EndToEnd ==
    (world_size = 3 /\ val_len = 10 /\ Quiescent) =>
        /\ \A r \in Ranks : pc[r] = "done"
        /\ LET n0 == Len(steps[0]) IN
           /\ n0 >= 2
           /\ \A k \in 1 .. (n0 - 1) :
                \A r \in Ranks :
                    /\ Len(steps[r]) = n0 - 1
                       \/ r = 0
                    /\ steps[r][k].group = "world"
                    /\ steps[r][k].n >= 2
           /\ steps[0][n0] = [group |-> "sub", n |-> 1, count |-> 1]
           /\ SetSum(1 .. n0, [k \in 1 .. n0 |-> steps[0][k].count]) = 10

\* C6: Missing resume checkpoint is recoverable: with a resume path and no file
\* there, a worker that has left the resume block has logged a warning, has its
\* weights initialized, start epoch 0 and best score 0, and no worker ever stops
\* on an exception.
C6_MissingResumeRecovers ==
    (resume /\ resume_file = <<>>) =>
        \A r \in Ranks :
            /\ raised[r] = ""
            /\ pc[r] \notin {"main", "setup"} =>
                 /\ warn_log[r] = 1
                 /\ weights[r] = "init_weights"
                 /\ start_epoch[r] = <<0>>

\* C7: The checkpoint is written by the coordinator only: a rank other than 0
\* never calls save_checkpoint.
C7_CoordinatorCheckpoint == \A r \in Ranks : r # 0 => ckpt_log[r] = <<>>

\* C8: Best-copy rule: every epoch a worker completes has written the checkpoint;
\* the best copy was written iff the epoch's score is strictly greater than the
\* best score before it; the stored best score is the larger of the two, and the
\* best score before an epoch is the one stored by the previous epoch.
C8_BestCopy ==
    \A r \in Ranks :
        /\ (pc[r] = "epoch_head" /\ start_epoch[r] # <<>>) =>
              Len(ckpt_log[r]) = epoch[r] - start_epoch[r][1]
        /\ \A k \in 1 .. Len(ckpt_log[r]) :
             LET c == ckpt_log[r][k] IN
             /\ c.best_copy <=> RatLt(c.before, c.score)
             /\ c.state.best_prec1 = (IF RatLt(c.before, c.score) THEN c.score ELSE c.before)
             /\ ~RatLt(c.state.best_prec1, c.before)
             /\ c.state.epoch = start_epoch[r][1] + k
             /\ k > 1 => c.before = ckpt_log[r][k - 1].state.best_prec1
        /\ ckpt_log[r] # <<>> => disk.ckpt # <<>>
        /\ (\A q \in Ranks : \A k \in 1 .. Len(ckpt_log[q]) : ~ckpt_log[q][k].best_copy)
              => disk.best = <<>>

\* C8: reached: a second epoch scores exactly the best so far (not zero), and no
\* best copy is written for it
C8_Witness ==
    \E r \in Ranks :
        /\ Len(ckpt_log[r]) = 2
        /\ ckpt_log[r][1].best_copy
        /\ ckpt_log[r][2].score = ckpt_log[r][2].before
        /\ ckpt_log[r][2].score # Zero
        /\ ~ckpt_log[r][2].best_copy

\* the phases of a complete run that starts at epoch s
RECURSIVE Triples(_)
Triples(n) ==
    IF n <= 0 THEN <<>> ELSE <<"TrainEpoch", "Evaluate", "Checkpoint">> \o Triples(n - 1)

IsPrefix(p, q) == Len(p) <= Len(q) /\ \A k \in 1 .. Len(p) : p[k] = q[k]

RunOf(first, s) ==
    <<"Init", first>> \o (IF evaluate THEN <<"Evaluate">> ELSE Triples(epochs - s))
                      \o <<"Done">>

\* C9: Per-worker run state machine: the phases of every worker are a prefix of
\* Init, Resume or FreshInit, one TrainEpoch-Evaluate-Checkpoint triple per epoch
\* from the start epoch to epochs - 1 (a single Evaluate in evaluate-only mode),
\* Done; a worker that has stopped has gone through all of them.
C9_RunStateMachine ==
    \A r \in Ranks :
        /\ \E first \in {"Resume", "FreshInit"}, s \in 0 .. MaxEpochs :
             /\ IsPrefix(phases[r], RunOf(first, s))
             /\ start_epoch[r] # <<>> => s = start_epoch[r][1]
        /\ pc[r] \in {"done", "error"} => phases[r][Len(phases[r])] = "Done"

\* C10: Only the coordinator writes to the metrics sink: a rank other than 0 has
\* written nothing to tb, and no rank has dereferenced an absent tb.
C10_CoordinatorWritesTb ==
    \A r \in Ranks :
        /\ r # 0 => tb_log[r] = <<>>
        /\ raised[r] # "AttributeError: tb"

\* C10: reached: in a distributed run rank 0 has written training and validation
\* scalars, and another rank has gone through both places without writing
C10_Witness ==
    /\ world_size > 1
    /\ tb_log[0] = <<"train", "val">>
    /\ pc[1] = "ckpt"
    /\ tb[1] = "None"

\* the calls since the last reset
RECURSIVE SinceReset(_)
SinceReset(h) ==
    IF h = <<>> THEN <<>>
    ELSE IF h[Len(h)].op = "reset" THEN <<>>
    ELSE Append(SinceReset(SubSeq(h, 1, Len(h) - 1)), h[Len(h)])

RECURSIVE WeightSum(_)
WeightSum(h) == IF h = <<>> THEN 0 ELSE h[1].n + WeightSum(Tail(h))

RECURSIVE WeightedSum(_)
WeightedSum(h) == IF h = <<>> THEN 0 ELSE h[1].val * h[1].n + WeightedSum(Tail(h))

\* C11: Meter correctness: whenever the updates since the last reset have a
\* positive total weight, avg is sum(value * weight) / sum(weight) over them and val
\* is the last value; with no update since the reset the meter is all zero; and
\* the meter equals a freshly constructed one given the same updates.
C11_MeterCorrect ==
    LET u == SinceReset(hist) IN
    /\ mt = mf
    /\ u = <<>> => mt = [val |-> Zero, avg |-> Zero, sum |-> Zero, count |-> 0]
    /\ u # <<>> => mt.val = Rat(u[Len(u)].val, 1)
    /\ mt.count = WeightSum(u)
    /\ mt.sum = Rat(WeightedSum(u), 1)
    /\ WeightSum(u) > 0 => mt.avg = Rat(WeightedSum(u), WeightSum(u))

\* C11: reached: a used meter was reset and then updated twice with different
\* values and weights
C11_Witness ==
    /\ Len(hist) = 4
    /\ hist[1].op = "update" /\ hist[1].n > 0 /\ hist[1].val > 0
    /\ hist[2].op = "reset"
    /\ hist[3] = [op |-> "update", val |-> 1, n |-> 2]
    /\ hist[4] = [op |-> "update", val |-> 2, n |-> 1]
    /\ mt.avg = <<4, 3>>

\* C12: Subgroup membership guard: a worker reduces on the remainder subgroup
\* only if its rank is below R = N mod W, and no worker issues an all-reduce on a
\* group it is not a member of, whatever the length of its batch.
C12_MembershipGuard ==
    \A r \in Ranks :
        \A k \in 1 .. Len(steps[r]) :
            /\ steps[r][k].group = "sub" => r < last_group_size
            /\ steps[r][k].group # "nonmember"

\* C13: Post-loop synchronization: when R > 0 and every worker ended its loop on
\* the single-sample case, the pass ends with every worker returned and with the
\* same number of group-forming calls on every rank, so the remainder subgroup is
\* formed on all of them.
C13_PostLoopSync ==
    (/\ last_group_size > 0
     /\ Quiescent
     /\ \A r \in Ranks : raised[r] = "" /\ input_shape[r] = 1) =>
        \A r \in Ranks : pc[r] = "done" /\ ng_calls[r] = ng_calls[0]

\* C18: AverageMeter.update has no error conditions: no update raises, and avg is
\* 0 while the total weight is 0.
C18_UpdateNeverRaises ==
    /\ mraised = ""
    /\ mt.count = 0 => mt.avg = Zero

\* C14: The remainder subgroup exists for one irregular step only: a step a worker
\* does not aggregate over the world group (over nothing, with one process) is the
\* last step of its loop.
C14_OneIrregularStep ==
    \A r \in Ranks :
        \A k \in 1 .. Len(steps[r]) :
            steps[r][k].group \notin {"world", "None"} => k = NumBatches(r)

\* the ranks whose values enter a reduction of rank r on the group g
Contributors(r, g) ==
    IF g = "world" THEN Ranks
    ELSE IF g = "sub" THEN 0 .. (last_group_size - 1)
    ELSE {r}

\* C15: Same group for sum and denominator: after a training step and after an
\* evaluation step, the divisor a worker used is the sum of the local sample
\* counts of the workers of the step's group, and each of loss, top-1 and top-5 is
\* the sum of the local values of those same workers divided by it.
C15_SameGroup ==
    \A r \in Ranks :
        /\ pc[r] = "train_tb" =>
             /\ count[r] = CentralCount(i[r], epoch[r])
             /\ \A k \in 1 .. 3 :
                  meters[r][MeterName(k)].val
                     = Rat(CentralValue(k, i[r], epoch[r]), count[r])
        /\ (pc[r] \in {"val", "val_post"} /\ i[r] >= 1) =>
             LET j == i[r] - 1
                 G == Contributors(r, steps[r][i[r]].group)
             IN  /\ count[r] = SetSum(G, [s \in G |-> BatchLen(s, j)])
                 /\ steps[r][i[r]].count = count[r]
                 /\ \A k \in 1 .. 3 :
                      meters[r][MeterName(k)].val
                         = Rat(SetSum(G, [s \in G |-> ValLocal(s, j, epoch[r])[k]]),
                               count[r])

\* C15: reached: two workers, after a training step with local counts 2 and 1, have
\* both finished an evaluation step of 2 samples each on the world group
C15_Witness ==
    /\ world_size = 2
    /\ feed[0].n = 2 /\ feed[1].n = 1
    /\ \A r \in Ranks :
         /\ pc[r] = "val_post"
         /\ steps[r] = <<[group |-> "world", n |-> 2, count |-> 4]>>
         /\ meters[r].top1.val # Zero

\* the number of training epochs a worker has started
RECURSIVE CountOf(_, _)
CountOf(p, x) ==
    IF p = <<>> THEN 0 ELSE (IF p[1] = x THEN 1 ELSE 0) + CountOf(Tail(p), x)

\* C16: Checkpoint/resume continuity: every checkpoint records the trained epoch
\* plus one and the best score of that moment; a run resumed from a checkpoint
\* saved with epoch s and best score b starts with best score b, trains the epochs
\* s, s + 1, ... in order and stops after epoch E - 1, and trains nothing when
\* s >= E.
C16_ResumeContinuity ==
    \A r \in Ranks :
        /\ \A k \in 1 .. Len(ckpt_log[r]) :
             ckpt_log[r][k].state.epoch = ckpt_log[r][k].trained + 1
        /\ (pc[r] = "epoch_head" /\ ckpt_log[r] # <<>>) =>
             ckpt_log[r][Len(ckpt_log[r])].state
                = [epoch |-> epoch[r], best_prec1 |-> best_prec1[r]]
        /\ (resume_file # <<>> /\ pc[r] # "main") =>
             LET c == resume_file[1] IN
             /\ start_epoch[r] = <<c.epoch>>
             /\ pc[r] = "setup" => best_prec1[r] = c.best_prec1
             /\ ~RatLt(best_prec1[r], c.best_prec1)
             /\ \A k \in 1 .. Len(ckpt_log[r]) :
                  /\ ckpt_log[r][k].trained = c.epoch + k - 1
                  /\ ckpt_log[r][k].trained < epochs
             /\ ckpt_log[r] # <<>> => ckpt_log[r][1].before = c.best_prec1
             /\ CountOf(phases[r], "TrainEpoch") <= (IF c.epoch < epochs THEN epochs - c.epoch ELSE 0)
             /\ pc[r] = "done" =>
                  /\ Len(ckpt_log[r]) = (IF c.epoch < epochs THEN epochs - c.epoch ELSE 0)
                  /\ CountOf(phases[r], "TrainEpoch") = Len(ckpt_log[r])

\* C16: reached: a run of 2 epochs resumed from the checkpoint of epoch 0 has
\* trained epoch 1 alone, scored below the saved best and returned
C16_Witness ==
    /\ epochs = 2
    /\ resume_file # <<>>
    /\ resume_file[1].epoch = 1
    /\ pc[0] = "done"
    /\ Len(ckpt_log[0]) = 1
    /\ ckpt_log[0][1].trained = 1
    /\ ckpt_log[0][1].state = [epoch |-> 2, best_prec1 |-> resume_file[1].best_prec1]
    /\ RatLt(ckpt_log[0][1].score, resume_file[1].best_prec1)

\* the place of the label of sample x in the descending order of its scores
LabelPlace(x) == 1 + Cardinality({d \in DOMAIN x.scores : x.scores[d] > x.scores[x.target]})

\* C17: Top-K monotonicity of accuracy_sum: the value returned for k is 100 times
\* the number of samples whose label is among the k best scores, an integer between
\* 0 and the batch size, so for k < k' the value for k is at most the value for k'.
C17_TopKMonotone ==
    acc_res # <<>> =>
        /\ Len(acc_res) = Len(acc_in[1].scores)
        /\ \A k \in 1 .. Len(acc_res) :
             /\ acc_res[k] = 100 * Cardinality({x \in 1 .. Len(acc_in) : LabelPlace(acc_in[x]) <= k})
             /\ \E n \in 0 .. Len(acc_in) : acc_res[k] = 100 * n
             /\ \A l \in 1 .. Len(acc_res) : k < l => acc_res[k] <= acc_res[l]

\* C17: reached: a batch of two samples over three classes, one label first, the
\* other third: 100, 100, 200
C17_Witness ==
    /\ Len(acc_in) = 2
    /\ acc_res = <<100, 100, 200>>

\* C19: Evaluation with an empty local shard completes: a worker whose loader
\* yields no batch never stops on an exception in validate.
C19_EmptyShardCompletes ==
    \A r \in Ranks : NumBatches(r) = 0 => raised[r] = ""

\* per step of a worker: TRUE for an all-reduce on the world group, FALSE for a
\* dist.new_group call
CollectiveTrace(r) == [k \in 1 .. Len(steps[r]) |-> steps[r][k].group = "world"]

\* C20: Subgroup formation is matched across the world: no worker has issued more
\* dist.new_group calls than a worker that has returned from validate, and two
\* workers that have returned have issued their new_group calls at the same places
\* among their world all-reduces.
C20_NewGroupMatched ==
    \A r, s \in Ranks :
        pc[s] = "done" =>
            /\ ng_calls[r] <= ng_calls[s]
            /\ pc[r] = "done" => CollectiveTrace(r) = CollectiveTrace(s)

====
